---- MODULE Spec2Model ----
(***************************************************************************)
(* Verification model of dircompare's side-by-side diff snippet generator  *)
(* (src/dircompare/_d2hc.py).                                               *)
(*                                                                         *)
(* A line of text is a sequence of one-character strings.  The two control *)
(* characters that difflib._mdiff inserts as change markers are written    *)
(* NUL (chr(0)) and SOH (chr(1)).  Python indices (0-based, half-open      *)
(* ranges) are kept; a Python x[i] is written x[i + 1].                    *)
(***************************************************************************)
EXTENDS Integers, Sequences, FiniteSets, TLC

\* ------------------------------------------------------------------------
\* Bounds of the model
\* ------------------------------------------------------------------------

\* longest "before" file, in lines
MaxFrom == 2

\* longest "after" file, in lines
MaxTo == 2

\* ------------------------------------------------------------------------
\* Characters and lines
\* ------------------------------------------------------------------------

NUL == "NUL"

SOH == "SOH"

TAB == "TAB"

\* str.isspace() on the characters of the model
IsSpace(c) == c \in {" ", TAB, "\n"}

\* the line texts files are made of: a blank line, code, longer code that
\* is not similar to it (ratio 2/3), a comment similar to the longer code
\* (ratio 4/5), and an indented line
LineTexts ==
  { <<>>, <<"a">>, <<"a", "b">>, <<"#", "a", "b">>, <<TAB, "b">> }

RECURSIVE SeqsUpTo(_, _)
SeqsUpTo(S, n) ==
  IF n = 0 THEN { <<>> }
  ELSE LET shorter == SeqsUpTo(S, n - 1)
       IN  shorter \cup { Append(s, x) : s \in { t \in shorter : Len(t) = n - 1 }, x \in S }

Min(x, y) == IF x < y THEN x ELSE y

Max(x, y) == IF x < y THEN y ELSE x

\* Python slice x[lo:hi]
Slice(x, lo, hi) == SubSeq(x, lo + 1, hi)

RECURSIVE Repeat(_, _)
Repeat(c, n) == IF n <= 0 THEN <<>> ELSE <<c>> \o Repeat(c, n - 1)

\* ------------------------------------------------------------------------
\* difflib.SequenceMatcher, as used by difflib._mdiff
\* ------------------------------------------------------------------------

\* difflib.IS_CHARACTER_JUNK: the charjunk handed to _mdiff
CharJunk == {" ", TAB}

\* linejunk=None: no line is junk
LineJunk == {}

\* length of the run of equal, non-junk elements ending at a[i], b[j]
\* (the j2len table of find_longest_match; junk is absent from b2j)
RECURSIVE RunLen(_, _, _, _, _, _, _)
RunLen(a, b, junk, alo, blo, i, j) ==
  IF i < alo \/ j < blo THEN 0
  ELSE IF a[i + 1] # b[j + 1] \/ b[j + 1] \in junk THEN 0
  ELSE 1 + RunLen(a, b, junk, alo, blo, i - 1, j - 1)

\* the extension loops of find_longest_match; wantJunk selects the loop
RECURSIVE ExtendBack(_, _, _, _, _, _, _)
ExtendBack(a, b, junk, alo, blo, m, wantJunk) ==
  IF m[1] > alo /\ m[2] > blo
     /\ ((b[m[2]] \in junk) = wantJunk)
     /\ a[m[1]] = b[m[2]]
  THEN ExtendBack(a, b, junk, alo, blo, <<m[1] - 1, m[2] - 1, m[3] + 1>>, wantJunk)
  ELSE m

RECURSIVE ExtendFwd(_, _, _, _, _, _, _)
ExtendFwd(a, b, junk, ahi, bhi, m, wantJunk) ==
  IF m[1] + m[3] < ahi /\ m[2] + m[3] < bhi
     /\ ((b[m[2] + m[3] + 1] \in junk) = wantJunk)
     /\ a[m[1] + m[3] + 1] = b[m[2] + m[3] + 1]
  THEN ExtendFwd(a, b, junk, ahi, bhi, <<m[1], m[2], m[3] + 1>>, wantJunk)
  ELSE m

\* the first end position, in the loops' order, whose run is the longest:
\* Match(besti, bestj, bestsize) before the extension loops
FirstLongest(k, ends, alo, blo, bestsize) ==
  IF bestsize = 0 THEN <<alo, blo, 0>>
  ELSE LET e == CHOOSE p \in ends :
                  /\ k[p] = bestsize
                  /\ \A q \in ends :
                       k[q] = bestsize => p[1] < q[1] \/ (p[1] = q[1] /\ p[2] <= q[2])
       IN  <<e[1] - bestsize + 1, e[2] - bestsize + 1, bestsize>>

\* the longest run over the window's end positions
LongestRun(k, ends, alo, blo) ==
  FirstLongest(k, ends, alo, blo,
               IF ends = {} THEN 0
               ELSE CHOOSE n \in { k[p] : p \in ends } : \A q \in ends : k[q] <= n)

\* SequenceMatcher.find_longest_match: Match(besti, bestj, bestsize)
find_longest_match(a, b, junk, alo, ahi, blo, bhi) ==
  ExtendFwd(a, b, junk, ahi, bhi,
    ExtendBack(a, b, junk, alo, blo,
      ExtendFwd(a, b, junk, ahi, bhi,
        ExtendBack(a, b, junk, alo, blo,
          LongestRun([p \in (alo .. (ahi - 1)) \X (blo .. (bhi - 1)) |->
                        RunLen(a, b, junk, alo, blo, p[1], p[2])],
                     (alo .. (ahi - 1)) \X (blo .. (bhi - 1)), alo, blo),
          FALSE),
        FALSE),
      TRUE),
    TRUE)

\* the matching blocks of a window, sorted (the queue loop and the sort);
\* x is the longest match of the window
RECURSIVE BlocksIn(_, _, _, _, _, _, _)
RECURSIVE BlocksAround(_, _, _, _, _, _, _, _)
BlocksAround(a, b, junk, alo, ahi, blo, bhi, x) ==
  IF x[3] = 0 THEN <<>>
  ELSE (IF alo < x[1] /\ blo < x[2]
        THEN BlocksIn(a, b, junk, alo, x[1], blo, x[2]) ELSE <<>>)
       \o <<x>>
       \o (IF x[1] + x[3] < ahi /\ x[2] + x[3] < bhi
           THEN BlocksIn(a, b, junk, x[1] + x[3], ahi, x[2] + x[3], bhi) ELSE <<>>)

BlocksIn(a, b, junk, alo, ahi, blo, bhi) ==
  BlocksAround(a, b, junk, alo, ahi, blo, bhi,
               find_longest_match(a, b, junk, alo, ahi, blo, bhi))

\* the loop of get_matching_blocks that collapses adjacent blocks
RECURSIVE Collapse(_, _, _)
Collapse(blocks, cur, n) ==
  IF n > Len(blocks)
  THEN (IF cur[3] # 0 THEN <<cur>> ELSE <<>>)
  ELSE LET x == blocks[n]
       IN  IF cur[1] + cur[3] = x[1] /\ cur[2] + cur[3] = x[2]
           THEN Collapse(blocks, <<cur[1], cur[2], cur[3] + x[3]>>, n + 1)
           ELSE (IF cur[3] # 0 THEN <<cur>> ELSE <<>>)
                \o Collapse(blocks, x, n + 1)

\* SequenceMatcher.get_matching_blocks
get_matching_blocks(a, b, junk) ==
  Collapse(BlocksIn(a, b, junk, 0, Len(a), 0, Len(b)), <<0, 0, 0>>, 1)
    \o << <<Len(a), Len(b), 0>> >>

\* SequenceMatcher.get_opcodes: <<tag, i1, i2, j1, j2>>
RECURSIVE OpcodesFrom(_, _, _, _)
OpcodesFrom(blocks, n, i, j) ==
  IF n > Len(blocks) THEN <<>>
  ELSE LET ai == blocks[n][1]
           bj == blocks[n][2]
           size == blocks[n][3]
           tag == IF i < ai /\ j < bj THEN "replace"
                  ELSE IF i < ai THEN "delete"
                  ELSE IF j < bj THEN "insert"
                  ELSE ""
       IN  (IF tag # "" THEN << <<tag, i, ai, j, bj>> >> ELSE <<>>)
           \o (IF size # 0
               THEN << <<"equal", ai, ai + size, bj, bj + size>> >> ELSE <<>>)
           \o OpcodesFrom(blocks, n + 1, ai + size, bj + size)

get_opcodes(a, b, junk) == OpcodesFrom(get_matching_blocks(a, b, junk), 1, 0, 0)

RECURSIVE SumSizes(_, _)
SumSizes(blocks, n) ==
  IF n > Len(blocks) THEN 0 ELSE blocks[n][3] + SumSizes(blocks, n + 1)

\* A ratio 2.0*matches/length is kept as the fraction <<2*matches, length>>
\* (_calculate_ratio returns 1.0 for length 0).
calculate_ratio(matches, length) ==
  IF length # 0 THEN <<2 * matches, length>> ELSE <<1, 1>>

\* x > y and x < y on fractions with positive denominators
RatioGT(x, y) == x[1] * y[2] > y[1] * x[2]

RatioLT(x, y) == x[1] * y[2] < y[1] * x[2]

\* SequenceMatcher.ratio
ratio(a, b, junk) ==
  calculate_ratio(SumSizes(get_matching_blocks(a, b, junk), 1), Len(a) + Len(b))

Count(s, c) == Cardinality({ n \in 1 .. Len(s) : s[n] = c })

RECURSIVE SumMin(_, _, _)
SumMin(a, b, elts) ==
  IF elts = {} THEN 0
  ELSE LET c == CHOOSE x \in elts : TRUE
       IN  Min(Count(a, c), Count(b, c)) + SumMin(a, b, elts \ {c})

\* SequenceMatcher.quick_ratio: the multiset intersection of a and b
quick_ratio(a, b) ==
  calculate_ratio(SumMin(a, b, { a[n] : n \in 1 .. Len(a) }), Len(a) + Len(b))

\* SequenceMatcher.real_quick_ratio
real_quick_ratio(a, b) ==
  calculate_ratio(Min(Len(a), Len(b)), Len(a) + Len(b))

\* ------------------------------------------------------------------------
\* difflib.Differ (ndiff): the delta lines, each [tag, txt]
\* ------------------------------------------------------------------------

DLine(tag, txt) == [tag |-> tag, txt |-> txt]

\* Differ._dump
RECURSIVE dump(_, _, _, _)
dump(tag, x, lo, hi) ==
  IF lo >= hi THEN <<>> ELSE <<DLine(tag, x[lo + 1])>> \o dump(tag, x, lo + 1, hi)

\* _plain_replace that always dumps the deletions first
plain_replace_DeleteFirst(a, alo, ahi, b, blo, bhi) ==
  dump("-", a, alo, ahi) \o dump("+", b, blo, bhi)

\* Differ._plain_replace
plain_replace(a, alo, ahi, b, blo, bhi) ==
  IF bhi - blo < ahi - alo
  THEN dump("+", b, blo, bhi) \o dump("-", a, alo, ahi)
  ELSE dump("-", a, alo, ahi) \o dump("+", b, blo, bhi)

\* str.rstrip()
RECURSIVE rstrip(_)
rstrip(s) ==
  IF s # <<>> /\ IsSpace(s[Len(s)]) THEN rstrip(SubSeq(s, 1, Len(s) - 1)) ELSE s

\* str.lstrip()
RECURSIVE lstrip(_)
lstrip(s) ==
  IF s # <<>> /\ IsSpace(s[1]) THEN lstrip(Tail(s)) ELSE s

\* str.strip()
strip(s) == lstrip(rstrip(s))

\* difflib._keep_original_ws
keep_original_ws(s, tag_s) ==
  [n \in 1 .. Min(Len(s), Len(tag_s)) |->
     IF tag_s[n] = " " /\ IsSpace(s[n]) THEN s[n] ELSE tag_s[n]]

\* Differ._qformat
qformat(aline, bline, atags, btags) ==
  LET at == rstrip(keep_original_ws(aline, atags))
      bt == rstrip(keep_original_ws(bline, btags))
  IN  <<DLine("-", aline)>>
      \o (IF at # <<>> THEN <<DLine("?", at)>> ELSE <<>>)
      \o <<DLine("+", bline)>>
      \o (IF bt # <<>> THEN <<DLine("?", bt)>> ELSE <<>>)

\* the tag strings _fancy_replace builds from the intraline opcodes
RECURSIVE TagsOf(_, _, _)
TagsOf(ops, n, forA) ==
  IF n > Len(ops) THEN <<>>
  ELSE LET tag == ops[n][1]
           la == ops[n][3] - ops[n][2]
           lb == ops[n][5] - ops[n][4]
           here == IF tag = "replace" THEN Repeat("^", IF forA THEN la ELSE lb)
                   ELSE IF tag = "delete" THEN (IF forA THEN Repeat("-", la) ELSE <<>>)
                   ELSE IF tag = "insert" THEN (IF forA THEN <<>> ELSE Repeat("+", lb))
                   ELSE Repeat(" ", IF forA THEN la ELSE lb)
       IN  here \o TagsOf(ops, n + 1, forA)

\* best_ratio, cutoff = 0.74, 0.75
BestRatio0 == <<37, 50>>

Cutoff == <<3, 4>>

\* best_ratio, best_i, best_j = cruncher.ratio(), i, j when the ratio rt
\* is above best_ratio
Improve(st, i, j, rt) ==
  IF RatioGT(rt, st.ratio) THEN [st EXCEPT !.ratio = rt, !.i = i, !.j = j] ELSE st

\* one pass of the inner search loop of _fancy_replace, on a[i] and b[j]
SearchStep(st, i, j, ai, bj) ==
  IF ai = bj
  THEN (IF st.eqi = -1 THEN [st EXCEPT !.eqi = i, !.eqj = j] ELSE st)
  ELSE IF RatioGT(real_quick_ratio(ai, bj), st.ratio)
          /\ RatioGT(quick_ratio(ai, bj), st.ratio)
  THEN Improve(st, i, j, ratio(ai, bj, CharJunk))
  ELSE st

\* The search loops of _fancy_replace, pair number n of the block in loop
\* order (j outer, i inner); st = [ratio, i, j, eqi, eqj], eqi = -1 for None.
RECURSIVE FancySearch(_, _, _, _, _, _, _, _)
FancySearch(a, alo, ahi, b, blo, bhi, n, st) ==
  IF n >= (ahi - alo) * (bhi - blo) THEN st
  ELSE FancySearch(a, alo, ahi, b, blo, bhi, n + 1,
                   SearchStep(st, alo + (n % (ahi - alo)), blo + (n \div (ahi - alo)),
                              a[alo + (n % (ahi - alo)) + 1],
                              b[blo + (n \div (ahi - alo)) + 1]))

\* the lines of the synch pair: the pair and its '?' guide lines
SynchPair(aelt, belt, ops) ==
  qformat(aelt, belt, TagsOf(ops, 1, TRUE), TagsOf(ops, 1, FALSE))

\* Differ._fancy_replace and Differ._fancy_helper; st is what the search
\* loops found
RECURSIVE fancy_replace(_, _, _, _, _, _)
RECURSIVE fancy_helper(_, _, _, _, _, _)
RECURSIVE FancySplit(_, _, _, _, _, _, _)
FancySplit(a, alo, ahi, b, blo, bhi, st) ==
  IF RatioLT(st.ratio, Cutoff)
  THEN IF st.eqi = -1
       THEN plain_replace(a, alo, ahi, b, blo, bhi)
       ELSE fancy_helper(a, alo, st.eqi, b, blo, st.eqj)
            \o <<DLine(" ", a[st.eqi + 1])>>
            \o fancy_helper(a, st.eqi + 1, ahi, b, st.eqj + 1, bhi)
  ELSE fancy_helper(a, alo, st.i, b, blo, st.j)
       \o SynchPair(a[st.i + 1], b[st.j + 1],
                    get_opcodes(a[st.i + 1], b[st.j + 1], CharJunk))
       \o fancy_helper(a, st.i + 1, ahi, b, st.j + 1, bhi)

fancy_replace(a, alo, ahi, b, blo, bhi) ==
  FancySplit(a, alo, ahi, b, blo, bhi,
             FancySearch(a, alo, ahi, b, blo, bhi, 0,
                         [ratio |-> BestRatio0, i |-> -1, j |-> -1, eqi |-> -1, eqj |-> -1]))

fancy_helper(a, alo, ahi, b, blo, bhi) ==
  IF alo < ahi
  THEN (IF blo < bhi THEN fancy_replace(a, alo, ahi, b, blo, bhi)
        ELSE dump("-", a, alo, ahi))
  ELSE IF blo < bhi THEN dump("+", b, blo, bhi)
  ELSE <<>>

\* Differ.compare (ndiff with linejunk=None, charjunk=IS_CHARACTER_JUNK)
RECURSIVE CompareOps(_, _, _, _)
CompareOps(a, b, ops, n) ==
  IF n > Len(ops) THEN <<>>
  ELSE LET op == ops[n]
           g == IF op[1] = "replace" THEN fancy_replace(a, op[2], op[3], b, op[4], op[5])
                ELSE IF op[1] = "delete" THEN dump("-", a, op[2], op[3])
                ELSE IF op[1] = "insert" THEN dump("+", b, op[4], op[5])
                ELSE dump(" ", a, op[2], op[3])
       IN  g \o CompareOps(a, b, ops, n + 1)

ndiff(a, b) == CompareOps(a, b, get_opcodes(a, b, LineJunk), 1)

\* ------------------------------------------------------------------------
\* difflib._mdiff (context=None): the side by side rows
\*   row = << <<left_no, left_line>>, <<right_no, right_line>>, change >>
\* ------------------------------------------------------------------------

\* the line number '' of the filler tuple ('', '\n'): not an int
EmptyNo == 0

\* isinstance(no, int)
IsInt(no) == no # EmptyNo

\* the filler tuple ('', '\n') that stands for "no line on this side"
BlankLine == <<EmptyNo, <<"\n">>>>

\* a from/to line that is None
NoneLine == <<>>

\* first character of delta line p, 'X' past the end of the delta
TagAt(d, p) == IF p > Len(d) THEN "X" ELSE d[p].tag

\* s.startswith(pat) for the look-ahead string s of the delta lines p..p+3
StartsWith(d, p, pat) == \A n \in 1 .. Len(pat) : TagAt(d, p + n - 1) = pat[n]

\* end (exclusive, 1-based) of the run of character c that starts at n
RECURSIVE RunEnd(_, _, _)
RunEnd(markers, n, c) ==
  IF n <= Len(markers) /\ markers[n] = c THEN RunEnd(markers, n + 1, c) ELSE n

\* _make_line, format_key '?': wrap every run of '+', '-' or '^' of the
\* marker line in NUL key ... SOH (change_re and the reversed(sub_info) loop)
RECURSIVE MarkIntraline(_, _, _)
MarkIntraline(text, markers, n) ==
  IF n > Len(markers) THEN SubSeq(text, n, Len(text))
  ELSE IF markers[n] \in {"+", "-", "^"}
  THEN LET e == RunEnd(markers, n, markers[n])
       IN  <<NUL, markers[n]>> \o SubSeq(text, n, Min(e - 1, Len(text))) \o <<SOH>>
           \o MarkIntraline(text, markers, e)
  ELSE (IF n <= Len(text) THEN <<text[n]>> ELSE <<>>)
       \o MarkIntraline(text, markers, n + 1)

\* _make_line: the (line number, text) tuple made of delta line p
\* (and p + 1 for '?'); key "" is format_key None
make_line(d, p, key, num) ==
  IF key = "" THEN <<num, d[p].txt>>
  ELSE IF key = "?" THEN <<num, MarkIntraline(d[p].txt, d[p + 1].txt, 1)>>
  ELSE <<num, <<NUL, key>> \o (IF d[p].txt = <<>> THEN <<" ">> ELSE d[p].txt) \o <<SOH>>>>

Yield(f, t, c) == <<[f |-> f, t |-> t, c |-> c]>>

\* the catch-up loops: blanks yielded before the pending from/to line
RECURSIVE Blanks(_)
Blanks(n) ==
  IF n < 0 THEN Yield(NoneLine, BlankLine, TRUE) \o Blanks(n + 1)
  ELSE IF n > 0 THEN Yield(BlankLine, NoneLine, TRUE) \o Blanks(n - 1)
  ELSE <<>>

\* _line_iterator: everything it yields from delta line p on, with
\* num_blanks_pending = pend and the line counters num_lines = [nf, nt]
RECURSIVE line_iterator(_, _, _, _, _)
line_iterator(d, p, pend, nf, nt) ==
  IF StartsWith(d, p, <<"X">>) THEN Blanks(pend)
  ELSE IF StartsWith(d, p, <<"-", "?", "+", "?">>)
  THEN Yield(make_line(d, p, "?", nf + 1), make_line(d, p + 2, "?", nt + 1), TRUE)
       \o line_iterator(d, p + 4, pend, nf + 1, nt + 1)
  ELSE IF StartsWith(d, p, <<"-", "-", "+", "+">>)
  THEN Yield(make_line(d, p, "-", nf + 1), NoneLine, TRUE)
       \o line_iterator(d, p + 1, pend - 1, nf + 1, nt)
  ELSE IF StartsWith(d, p, <<"-", "-", "?", "+">>)
          \/ StartsWith(d, p, <<"-", "-", "+">>)
          \/ StartsWith(d, p, <<"-", " ">>)
  THEN Blanks(pend - 1)
       \o Yield(make_line(d, p, "-", nf + 1), NoneLine, TRUE)
       \o line_iterator(d, p + 1, 0, nf + 1, nt)
  ELSE IF StartsWith(d, p, <<"-", "+", "?">>)
  THEN Yield(make_line(d, p, "", nf + 1), make_line(d, p + 1, "?", nt + 1), TRUE)
       \o line_iterator(d, p + 3, pend, nf + 1, nt + 1)
  ELSE IF StartsWith(d, p, <<"-", "?", "+">>)
  THEN Yield(make_line(d, p, "?", nf + 1), make_line(d, p + 2, "", nt + 1), TRUE)
       \o line_iterator(d, p + 3, pend, nf + 1, nt + 1)
  ELSE IF StartsWith(d, p, <<"-">>)
  THEN Yield(make_line(d, p, "-", nf + 1), NoneLine, TRUE)
       \o line_iterator(d, p + 1, pend - 1, nf + 1, nt)
  ELSE IF StartsWith(d, p, <<"+", "-", "-">>)
  THEN Yield(NoneLine, make_line(d, p, "+", nt + 1), TRUE)
       \o line_iterator(d, p + 1, pend + 1, nf, nt + 1)
  ELSE IF StartsWith(d, p, <<"+", " ">>) \/ StartsWith(d, p, <<"+", "-">>)
  THEN Blanks(pend + 1)
       \o Yield(NoneLine, make_line(d, p, "+", nt + 1), TRUE)
       \o line_iterator(d, p + 1, 0, nf, nt + 1)
  ELSE IF StartsWith(d, p, <<"+">>)
  THEN Yield(NoneLine, make_line(d, p, "+", nt + 1), TRUE)
       \o line_iterator(d, p + 1, pend + 1, nf, nt + 1)
  ELSE IF StartsWith(d, p, <<" ">>)
  THEN Yield(make_line(d, p, "", nf + 1), make_line(d, p, "", nt + 1), FALSE)
       \o line_iterator(d, p + 1, pend, nf + 1, nt + 1)
  ELSE \* a leading '?' line: ndiff never leaves one unclaimed
       <<>>

\* _line_pair_iterator: ys is what _line_iterator yields, n the next one,
\* fq and tq the collected fromlines and tolines, each <<line, found_diff>>
RECURSIVE line_pair_iterator(_, _, _, _)
line_pair_iterator(ys, n, fq, tq) ==
  IF fq = <<>> \/ tq = <<>>
  THEN IF n > Len(ys) THEN <<>>
       ELSE line_pair_iterator(ys, n + 1,
              IF ys[n].f # NoneLine THEN Append(fq, <<ys[n].f, ys[n].c>>) ELSE fq,
              IF ys[n].t # NoneLine THEN Append(tq, <<ys[n].t, ys[n].c>>) ELSE tq)
  ELSE << <<fq[1][1], tq[1][1], fq[1][2] \/ tq[1][2]>> >>
       \o line_pair_iterator(ys, n, Tail(fq), Tail(tq))

\* difflib._mdiff(fromlines, tolines, None, linejunk=None,
\*                charjunk=difflib.IS_CHARACTER_JUNK)
mdiff(fromlines, tolines) ==
  line_pair_iterator(line_iterator(ndiff(fromlines, tolines), 1, 0, 0, 0), 1, <<>>, <<>>)

\* ------------------------------------------------------------------------
\* CodeDiff.getDiffDetails
\* ------------------------------------------------------------------------

\* tabSize=8, the default of getDiffDetails
TabSize == 8

\* str.replace(old, new) for single characters
ReplaceChar(line, old, new) ==
  [n \in 1 .. Len(line) |-> IF line[n] = old THEN new ELSE line[n]]

\* str.expandtabs(tabsize): col is the current column
RECURSIVE expandtabs(_, _, _, _)
expandtabs(line, n, col, tabsize) ==
  IF n > Len(line) THEN <<>>
  ELSE IF line[n] = TAB
  THEN (IF tabsize > 0
        THEN Repeat(" ", tabsize - (col % tabsize))
             \o expandtabs(line, n + 1, col + tabsize - (col % tabsize), tabsize)
        ELSE expandtabs(line, n + 1, col, tabsize))
  ELSE <<line[n]>>
       \o expandtabs(line, n + 1, IF line[n] = "\n" THEN 0 ELSE col + 1, tabsize)

\* str.rstrip('\n')
RECURSIVE rstrip_nl(_)
rstrip_nl(s) ==
  IF Len(s) > 0 /\ s[Len(s)] = "\n" THEN rstrip_nl(SubSeq(s, 1, Len(s) - 1)) ELSE s

\* expand_tabs, the helper of getDiffDetails
expand_tabs(line) ==
  LET hidden == ReplaceChar(line, " ", NUL)
      expanded == expandtabs(hidden, 1, 0, TabSize)
      tabbed == ReplaceChar(expanded, " ", TAB)
  IN  rstrip_nl(ReplaceChar(tabbed, NUL, " "))

\* self.fromlines = [expand_tabs(line) for line in self.fromlines]
ExpandAll(lines) == [n \in 1 .. Len(lines) |-> expand_tabs(lines[n])]

\* getDiffDetails with the before and after lines handed over in the wrong
\* order
getDiffDetails_Swapped(fromlines, tolines) ==
  mdiff(ExpandAll(tolines), ExpandAll(fromlines))

\* getDiffDetails that expands the before lines only
getDiffDetails_NoToExpand(fromlines, tolines) == mdiff(ExpandAll(fromlines), tolines)

\* CodeDiff.getDiffDetails on the lines io.readlines() returned
getDiffDetails(fromlines, tolines) == mdiff(ExpandAll(fromlines), ExpandAll(tolines))

\* ------------------------------------------------------------------------
\* DiffHtmlFormatter
\* ------------------------------------------------------------------------

\* coverage_line_list = None
CovNone == <<>>

\* a gutter cell '<span class="...">text</span>': its class tokens, in
\* order, and the line number shown (EmptyNo for the two blanks)
Cell(cls, no) == [cls |-> cls, no |-> no]

\* str.format(cov=c) on a gutter cell: only the class attribute holds {cov}
Format(cell, c) ==
  [cell EXCEPT !.cls = [n \in 1 .. Len(cell.cls) |->
                          IF cell.cls[n] = "{cov}" THEN c ELSE cell.cls[n]]]

\* content.startswith(prefix)
startswith(content, prefix) ==
  Len(content) >= Len(prefix) /\ SubSeq(content, 1, Len(prefix)) = prefix

\* the gutter cell of a row that prints the number of whichever side has one
DiffLineNo_AlwaysNumbered(isLeft, row, coverage_line_list, line_filter) ==
  Cell(<<"lineno_q">>, IF IsInt(row[1][1]) THEN row[1][1] ELSE row[2][1])

\* the gutter cell of one row (the body of the loop of getDiffLineNos)
DiffLineNo(isLeft, row, coverage_line_list, line_filter) ==
  LET left_no == row[1][1]
      right_no == row[2][1]
      right_line == row[2][2]
      change == row[3]
      need_coverage_draw == coverage_line_list # CovNone
      no == IF isLeft
            THEN IF change
                 THEN IF IsInt(left_no) /\ IsInt(right_no)
                      THEN Cell(<<"lineno_q", "lineno_leftchange">>, left_no)
                      ELSE IF IsInt(left_no) /\ ~IsInt(right_no)
                      THEN Cell(<<"lineno_q", "lineno_leftdel">>, left_no)
                      ELSE IF ~IsInt(left_no) /\ IsInt(right_no)
                      THEN Cell(<<"lineno_q", "lineno_leftadd">>, EmptyNo)
                      ELSE Cell(<<"None">>, EmptyNo)
                 ELSE Cell(<<"lineno_q">>, left_no)
            ELSE IF change
                 THEN IF IsInt(left_no) /\ IsInt(right_no)
                      THEN Cell(<<"lineno_q", "lineno_rightchange", "{cov}">>, right_no)
                      ELSE IF IsInt(left_no) /\ ~IsInt(right_no)
                      THEN Cell(<<"lineno_q", "lineno_rightdel", "{cov}">>, EmptyNo)
                      ELSE IF ~IsInt(left_no) /\ IsInt(right_no)
                      THEN Cell(<<"lineno_q", "lineno_rightadd", "{cov}">>, right_no)
                      ELSE Cell(<<"None">>, EmptyNo)
                 ELSE Cell(<<"lineno_q", "{cov}">>, right_no)
      content == strip(right_line)
  IN  IF ~isLeft /\ need_coverage_draw /\ change
      THEN IF content = <<>> \/ startswith(content, <<"#">>)
              \/ startswith(content, <<"/", "/">>)
           THEN no
           ELSE IF line_filter # {} /\ right_no \notin line_filter
           THEN no
           ELSE IF right_no \in coverage_line_list[2]
                   /\ right_no \notin coverage_line_list[1]
           THEN Format(no, "lineno_coverage_hit")
           ELSE Format(no, "lineno_coverage_miss")
      ELSE no

\* DiffHtmlFormatter.getDiffLineNos; line_filter {} is None or empty
getDiffLineNos(isLeft, diffs, coverage_line_list, line_filter) ==
  [n \in 1 .. Len(diffs) |-> DiffLineNo(isLeft, diffs[n], coverage_line_list, line_filter)]

\* a body line yielded by _wrap_code: the wrapper class ("" for none) and
\* either the highlighted line source[k - 1] or the row's own text
Highlighted(cls, k) == [cls |-> cls, from |-> "source", k |-> k, text |-> <<>>]

RowText(cls, text) == [cls |-> cls, from |-> "row", k |-> EmptyNo, text |-> text]

\* what _wrap_code yields for one row, <<>> when the bare raise is swallowed;
\* srclen is len(source), the number of highlighted lines
WrapRow(isLeft, row, srclen) ==
  LET left_no == row[1][1]
      left_line == row[1][2]
      right_no == row[2][1]
      right_line == row[2][2]
      change == row[3]
  IN  IF isLeft
      THEN IF change
           THEN IF IsInt(left_no) /\ IsInt(right_no) /\ left_no <= srclen
                THEN <<Highlighted("left_diff_change", left_no)>>
                ELSE IF IsInt(left_no) /\ ~IsInt(right_no) /\ left_no <= srclen
                THEN <<Highlighted("left_diff_del", left_no)>>
                ELSE IF ~IsInt(left_no) /\ IsInt(right_no)
                THEN <<RowText("left_diff_add", left_line)>>
                ELSE <<>>
           ELSE IF left_no <= srclen
                THEN <<Highlighted("", left_no)>>
                ELSE <<RowText("", left_line)>>
      ELSE IF change
           THEN IF IsInt(left_no) /\ IsInt(right_no) /\ right_no <= srclen
                THEN <<Highlighted("right_diff_change", right_no)>>
                ELSE IF IsInt(left_no) /\ ~IsInt(right_no)
                THEN <<RowText("right_diff_del", right_line)>>
                ELSE IF ~IsInt(left_no) /\ IsInt(right_no) /\ right_no <= srclen
                THEN <<Highlighted("right_diff_add", right_no)>>
                ELSE <<>>
           ELSE IF right_no <= srclen
                THEN <<Highlighted("", right_no)>>
                ELSE <<RowText("", right_line)>>

\* DiffHtmlFormatter._wrap_code, without the <pre> and </pre> lines
RECURSIVE wrap_code(_, _, _, _)
wrap_code(isLeft, diffs, srclen, n) ==
  IF n > Len(diffs) THEN <<>>
  ELSE WrapRow(isLeft, diffs[n], srclen) \o wrap_code(isLeft, diffs, srclen, n + 1)

\* pygments.highlight(code, lexer, inst): one pane, the gutter of
\* _wrap_tablelinenos and the code lines of _wrap_code
Pane(isLeft, diffs, srclen, coverage_line_list, line_filter) ==
  [linenos |-> getDiffLineNos(isLeft, diffs, coverage_line_list, line_filter),
   code |-> wrap_code(isLeft, diffs, srclen, 1)]

\* ------------------------------------------------------------------------
\* Coverage reports: _read_xml and coverage_xml_parse
\* ------------------------------------------------------------------------

\* Python's None
None == "None"

\* the coverage report paths
XmlPaths == {"x1.xml", "x2.xml"}

\* What a report holds for the file m.py, as <<missed lines, all lines>>;
\* no report has an entry for another file.
ReportContents == { <<{1}, {1, 2}>>, <<{2}, {2}>>, <<{}, {1}>> }

\* the source files under the project root; the temporary file is outside
SourceNames == {"m.py", "n.py"}

ProjectRoot == "proj"

\* nothing is cached for the path
Unparsed == <<>>

\* coverage_xml_parse returned None, or was not called
NoResult == <<>>

\* etree.parse(xml_path): the parsed document, <<the path read, its content>>
Parse(disk, xml_path) == <<xml_path, disk[xml_path]>>

\* _read_xml with a cache that never hits
read_xml_NoCache(cache, disk, xml_path) ==
  [roots |-> Parse(disk, xml_path), cache |-> cache, parsed |-> TRUE]

\* _read_xml under functools.lru_cache(None): the parsed report, the cache
\* afterwards, and whether etree.parse ran
read_xml(cache, disk, xml_path) ==
  IF cache[xml_path] # Unparsed
  THEN [roots |-> cache[xml_path], cache |-> cache, parsed |-> FALSE]
  ELSE [roots |-> Parse(disk, xml_path),
        cache |-> [cache EXCEPT ![xml_path] = Parse(disk, xml_path)],
        parsed |-> TRUE]

\* XmlCoverageReporter._cache_file and _info_cache[path]: the entry of the
\* report, (set(), set()) for a file the report does not name
InfoCache(roots, rel_src_file_path) ==
  IF rel_src_file_path = "m.py" THEN roots[2] ELSE <<{}, {}>>

\* coverage_xml_parse: r is NoResult when the file is not under root
coverage_xml_parse(cache, disk, xml_file_path, src_file_path, root) ==
  LET rd == read_xml(cache, disk, xml_file_path)
  IN  [r |-> IF src_file_path \in SourceNames /\ root = ProjectRoot
             THEN InfoCache(rd.roots, src_file_path)
             ELSE NoResult,
       roots |-> rd.roots,
       cache |-> rd.cache,
       parsed |-> rd.parsed]

\* ------------------------------------------------------------------------
\* State
\* ------------------------------------------------------------------------

VARIABLES
  coverage_line_list,  \* the module global: CovNone or <<missed, all>>
  xml_cache,           \* the lru_cache of _read_xml: path -> parsed document
  reports,             \* the report files on disk: path -> content
  parses,              \* history: how often etree.parse ran on each path
  first_parsed,        \* history: the document first parsed from each path
  xml_roots,           \* the document _read_xml returned last, or <<>>
  call,                \* the arguments of the running file2snippet call
  r,                   \* its local r, NoResult without a report
  pc,                  \* where the running file2snippet call stands
  leftcode,            \* CodeDiff.leftcode: the before file as read, by line
  rightcode,           \* CodeDiff.rightcode: the after file as read, by line
  fromlines,           \* CodeDiff.fromlines
  tolines,             \* CodeDiff.tolines
  line_filter,         \* options.line_filter
  diffs,               \* CodeDiff.diffs
  codeContents,        \* the panes formatted so far
  htmlContents,        \* <<what the last finished call returned>>, or <<>>
  first,               \* history: <<call, returned page>> of the first call
  compare_pc,          \* compare(): "compare" before the call, "files" in the
                       \* loop, "snippet" inside file2snippet, "done" after
  dir1,                \* compare(): the files below dir1, name -> lines
  dir2,                \* compare(): the files below dir2, name -> lines
  coverage_xml,        \* compare(): its coverage_xml argument
  files,               \* compare(): the differing files not yet visited
  each,                \* compare(): the file of the running loop iteration
  snippets             \* compare(): the Snippet(name, content) list

xmlvars == <<xml_cache, reports, parses, first_parsed, xml_roots>>

callvars == <<call, r, htmlContents, first>>

dirvars == <<compare_pc, dir1, dir2, coverage_xml, files, each, snippets>>

vars == <<coverage_line_list, xmlvars, callvars, dirvars, pc, leftcode, rightcode,
          fromlines, tolines, line_filter, diffs, codeContents>>

\* a file as io.readlines() returns it: every line ends with a newline
ReadLines(text) == [n \in 1 .. Len(text) |-> text[n] \o <<"\n">>]

\* the files of at most n lines
Files(n) == { ReadLines(t) : t \in SeqsUpTo(LineTexts, n) }

\* the arguments of file2snippet; file1 and file2 stand for the lines on
\* disk under the two paths, name for the path file2
Call(file1, file2, name, root_dir, cobertura_xml, filter) ==
  [file1 |-> file1, file2 |-> file2, name |-> name, root_dir |-> root_dir,
   cobertura_xml |-> cobertura_xml, line_filter |-> filter]

\* no call has been made
NoCall == Call(<<>>, <<>>, "", None, None, {})

\* a fresh process: nothing loaded, nothing cached
FreshProcess ==
  /\ coverage_line_list = CovNone
  /\ xml_cache = [x \in XmlPaths |-> Unparsed]
  /\ parses = [x \in XmlPaths |-> 0]
  /\ first_parsed = [x \in XmlPaths |-> Unparsed]
  /\ xml_roots = <<>>
  /\ r = NoResult
  /\ diffs = <<>>
  /\ codeContents = <<>>
  /\ htmlContents = <<>>
  /\ first = <<>>

\* compare has not been called
NoCompare ==
  /\ compare_pc = "compare"
  /\ dir1 = <<>>
  /\ dir2 = <<>>
  /\ coverage_xml = None
  /\ files = {}
  /\ each = None
  /\ snippets = <<>>

\* no file2snippet call is running
Idle ==
  /\ pc = "file2snippet"
  /\ call = NoCall
  /\ leftcode = <<>>
  /\ rightcode = <<>>
  /\ fromlines = <<>>
  /\ tolines = <<>>
  /\ line_filter = {}
  /\ NoCompare

\* ------------------------------------------------------------------------
\* The steps of file2snippet
\* ------------------------------------------------------------------------

\* r = coverage_xml_parse(xml_file_path, src_file_path, root), with the
\* history of what _read_xml parsed
CallCoverageXmlParse(xml_file_path, src_file_path, root) ==
  LET p == coverage_xml_parse(xml_cache, reports, xml_file_path, src_file_path, root)
  IN  /\ xml_cache' = p.cache
      /\ xml_roots' = p.roots
      /\ parses' = IF p.parsed THEN [parses EXCEPT ![xml_file_path] = @ + 1] ELSE parses
      /\ first_parsed' = IF p.parsed /\ first_parsed[xml_file_path] = Unparsed
                         THEN [first_parsed EXCEPT ![xml_file_path] = p.roots]
                         ELSE first_parsed
      /\ r' = p.r

\* file2snippet up to CodeDiff(file1, file2, name=file2): the report is
\* looked up and the global set, then both files are read
File2Snippet(file1, file2, name, root_dir, cobertura_xml, filter) ==
  /\ pc = "file2snippet"
  /\ call' = Call(file1, file2, name, root_dir, cobertura_xml, filter)
  /\ IF cobertura_xml # None
     THEN /\ CallCoverageXmlParse(cobertura_xml, name, root_dir)
          /\ coverage_line_list' = IF r' # NoResult THEN r' ELSE coverage_line_list
     ELSE /\ r' = NoResult
          /\ UNCHANGED <<coverage_line_list, xml_cache, xml_roots, parses, first_parsed>>
  /\ leftcode' = file1
  /\ rightcode' = file2
  /\ fromlines' = file1
  /\ tolines' = file2
  /\ line_filter' = filter
  /\ diffs' = <<>>
  /\ codeContents' = <<>>
  /\ pc' = "getDiffDetails"
  /\ UNCHANGED <<reports, htmlContents, first>>

\* file2snippet called directly
StartCall(file1, file2, name, root_dir, cobertura_xml, filter) ==
  /\ File2Snippet(file1, file2, name, root_dir, cobertura_xml, filter)
  /\ UNCHANGED dirvars

\* a call of coverage_xml_parse on its own
CoverageXmlParse(xml_file_path, src_file_path, root) ==
  /\ pc = "file2snippet"
  /\ CallCoverageXmlParse(xml_file_path, src_file_path, root)
  /\ UNCHANGED <<coverage_line_list, reports, call, htmlContents, first, dirvars, pc, leftcode,
                 rightcode, fromlines, tolines, line_filter, diffs, codeContents>>

\* the report under a path is rewritten on disk
ChangeReport(xml_path, content) ==
  /\ reports[xml_path] # content
  /\ reports' = [reports EXCEPT ![xml_path] = content]
  /\ UNCHANGED <<coverage_line_list, xml_cache, parses, first_parsed, xml_roots,
                 callvars, dirvars, pc, leftcode, rightcode, fromlines, tolines, line_filter,
                 diffs, codeContents>>

\* self.diffs = self.getDiffDetails(self.fromfile, self.tofile)
GetDiffDetails ==
  /\ pc = "getDiffDetails"
  /\ fromlines' = ExpandAll(fromlines)
  /\ tolines' = ExpandAll(tolines)
  /\ diffs' = getDiffDetails(fromlines, tolines)
  /\ pc' = "left"
  /\ UNCHANGED <<coverage_line_list, xmlvars, callvars, dirvars, leftcode, rightcode,
                 line_filter, codeContents>>

\* the left pane; the highlighter's output for the before file has srclen lines
FormatLeft(srclen) ==
  /\ pc = "left"
  /\ codeContents' = <<Pane(TRUE, diffs, srclen, coverage_line_list, line_filter)>>
  /\ pc' = "right"
  /\ UNCHANGED <<coverage_line_list, xmlvars, callvars, dirvars, leftcode, rightcode,
                 fromlines, tolines, line_filter, diffs>>

\* the right pane; the highlighter's output for the after file has srclen lines
FormatRight(srclen) ==
  /\ pc = "right"
  /\ codeContents' =
       Append(codeContents, Pane(FALSE, diffs, srclen, coverage_line_list, line_filter))
  /\ pc' = "done"
  /\ UNCHANGED <<coverage_line_list, xmlvars, callvars, dirvars, leftcode, rightcode,
                 fromlines, tolines, line_filter, diffs>>

\* self.htmlContents = HTML_TEMPLATE % answers; return codeDiff.htmlContents
Return ==
  /\ pc = "done"
  /\ htmlContents' = <<[page_title |-> call.name,
                        original_code |-> codeContents[1],
                        modified_code |-> codeContents[2]]>>
  /\ first' = IF first = <<>> THEN <<call, htmlContents'[1]>> ELSE first
  /\ pc' = "file2snippet"
  /\ UNCHANGED <<coverage_line_list, xmlvars, call, r, dirvars, leftcode, rightcode,
                 fromlines, tolines, line_filter, diffs, codeContents>>

\* ------------------------------------------------------------------------
\* Spec: one comparison without a coverage report, for every pair of files
\* and every length of the two highlighted buffers
\* ------------------------------------------------------------------------

\* file2snippet(file1, file2) has built the CodeDiff: both files are read
Init ==
  /\ FreshProcess
  /\ reports \in [XmlPaths -> {<<{1}, {1, 2}>>}]
  /\ pc = "getDiffDetails"
  /\ leftcode \in Files(MaxFrom)
  /\ rightcode \in Files(MaxTo)
  /\ call = Call(leftcode, rightcode, "m.py", None, None, {})
  /\ fromlines = leftcode
  /\ tolines = rightcode
  /\ line_filter = {}
  /\ NoCompare

Next ==
  \/ GetDiffDetails
  \/ \E srclen \in 0 .. Len(leftcode) : FormatLeft(srclen)
  \/ \E srclen \in 0 .. Len(rightcode) : FormatRight(srclen)

Spec == Init /\ [][Next]_vars

\* ------------------------------------------------------------------------
\* SpecCov: one file2snippet call in a fresh process, with or without a
\* coverage report, the highlighted buffers as long as the files
\* ------------------------------------------------------------------------

\* the line filters a call is given; {} is None
LineFilters == { {}, {1} }

InitCov ==
  /\ FreshProcess
  /\ reports \in [XmlPaths -> ReportContents]
  /\ reports["x2.xml"] = reports["x1.xml"]
  /\ Idle

NextCov ==
  \/ \E file1 \in Files(MaxFrom), file2 \in Files(MaxTo),
        xml \in {None, "x1.xml"}, filter \in LineFilters :
       StartCall(file1, file2, "m.py", ProjectRoot, xml, filter)
  \/ GetDiffDetails
  \/ FormatLeft(Len(leftcode))
  \/ FormatRight(Len(rightcode))

SpecCov == InitCov /\ [][NextCov]_vars

\* ------------------------------------------------------------------------
\* SpecProc: file2snippet called again and again in one process, on files
\* and reports that stay as they are on disk
\* ------------------------------------------------------------------------

\* the before files
ProcBefore == { <<>>, ReadLines(<< <<"a">> >>) }

\* the after files by path; tmp is a temporary file outside the project root
ProcAfter ==
  [name \in SourceNames \cup {"tmp"} |->
     IF name = "m.py" THEN ReadLines(<< <<"a", "b">>, <<"a">> >>)
     ELSE IF name = "n.py" THEN ReadLines(<< <<"a">>, <<"b">> >>)
     ELSE ReadLines(<< <<"b">> >>)]

\* the two reports on disk
ProcReports ==
  [x \in XmlPaths |-> IF x = "x1.xml" THEN <<{1}, {1, 2}>> ELSE <<{}, {1}>>]

InitProc ==
  /\ FreshProcess
  /\ reports = ProcReports
  /\ Idle

NextProc ==
  \/ \E file1 \in ProcBefore, name \in DOMAIN ProcAfter,
        xml \in {None} \cup XmlPaths, filter \in LineFilters :
       StartCall(file1, ProcAfter[name], name, ProjectRoot, xml, filter)
  \/ GetDiffDetails
  \/ FormatLeft(Len(leftcode))
  \/ FormatRight(Len(rightcode))
  \/ Return

SpecProc == InitProc /\ [][NextProc]_vars

\* ------------------------------------------------------------------------
\* SpecXml: coverage_xml_parse called again and again in one process while
\* the reports on disk are rewritten
\* ------------------------------------------------------------------------

InitXml ==
  /\ FreshProcess
  /\ reports \in [XmlPaths -> ReportContents]
  /\ Idle

NextXml ==
  \/ \E xml \in XmlPaths, src \in SourceNames \cup {"tmp"} :
       CoverageXmlParse(xml, src, ProjectRoot)
  \/ \E xml \in XmlPaths, content \in ReportContents : ChangeReport(xml, content)

SpecXml == InitXml /\ [][NextXml]_vars

\* ------------------------------------------------------------------------
\* compare: one report over two directories, in a fresh process
\* ------------------------------------------------------------------------

\* the file names below a directory, and what a file may hold
DirFiles == {"m.py", "n.py"}

DirContents == { ReadLines(t) : t \in { <<>>, << <<"a">> >>, << <<"a", "b">> >> } }

\* a directory holds some of the files
Directories == UNION { [S -> DirContents] : S \in SUBSET DirFiles }

Dir1Path == "dir1"

Dir2Path == "dir2"

\* os.path.join
join(dir, name) == dir \o "/" \o name

\* os.path.isfile of os.path.join(dir, name)
isfile(dir, name) == name \in DOMAIN dir

\* the NamedTemporaryFile of one loop iteration: its name and its lines
TmpName == "tmp"

TmpFile == <<>>

\* Difile().compare_dir and the pruning loop: the relative paths of the files
\* that are in one directory only or differ between the two
compare_dir(d1, d2) ==
  { name \in DOMAIN d1 \cup DOMAIN d2 :
      \/ ~ isfile(d1, name)
      \/ ~ isfile(d2, name)
      \/ d1[name] # d2[name] }

\* compare(dir1, dir2, coverage_xml) up to the loop over the files
Compare(d1, d2, xml) ==
  /\ compare_pc = "compare"
  /\ pc = "file2snippet"
  /\ dir1' = d1
  /\ dir2' = d2
  /\ coverage_xml' = xml
  /\ files' = compare_dir(d1, d2)
  /\ snippets' = <<>>
  /\ compare_pc' = "files"
  /\ UNCHANGED <<coverage_line_list, xmlvars, callvars, each, pc, leftcode,
                 rightcode, fromlines, tolines, line_filter, diffs, codeContents>>

\* one loop iteration up to its file2snippet call; the arguments are passed
\* by position as the code passes them, so that coverage_xml is the third
CompareFile(name) ==
  /\ compare_pc = "files"
  /\ name \in files
  /\ files' = files \ {name}
  /\ each' = name
  /\ IF ~ isfile(dir1, name) /\ isfile(dir2, name)
     THEN File2Snippet(TmpFile, dir2[name], join(Dir2Path, name),
                       coverage_xml, None, {})
     ELSE IF isfile(dir1, name) /\ ~ isfile(dir2, name)
     THEN File2Snippet(dir1[name], TmpFile, TmpName, coverage_xml, None, {})
     ELSE File2Snippet(dir1[name], dir2[name], join(Dir2Path, name),
                       coverage_xml, None, {})
  /\ compare_pc' = "snippet"
  /\ UNCHANGED <<dir1, dir2, coverage_xml, snippets>>

\* the end of a loop iteration: file2snippet has returned
AppendSnippet ==
  /\ compare_pc = "snippet"
  /\ pc = "file2snippet"
  /\ snippets' = Append(snippets, [name |-> each, content |-> htmlContents[1]])
  /\ compare_pc' = "files"
  /\ UNCHANGED <<coverage_line_list, xmlvars, callvars, dir1, dir2, coverage_xml,
                 files, each, pc, leftcode, rightcode, fromlines, tolines,
                 line_filter, diffs, codeContents>>

\* the loop is over: the template is rendered with the snippets
Render ==
  /\ compare_pc = "files"
  /\ files = {}
  /\ compare_pc' = "done"
  /\ UNCHANGED <<coverage_line_list, xmlvars, callvars, dir1, dir2, coverage_xml,
                 files, each, snippets, pc, leftcode, rightcode, fromlines,
                 tolines, line_filter, diffs, codeContents>>

InitDir ==
  /\ FreshProcess
  /\ reports = ProcReports
  /\ Idle

NextDir ==
  \/ \E d1 \in Directories, d2 \in Directories, xml \in {None} \cup XmlPaths :
       Compare(d1, d2, xml)
  \/ \E name \in DirFiles : CompareFile(name)
  \/ GetDiffDetails
  \/ FormatLeft(Len(leftcode))
  \/ FormatRight(Len(rightcode))
  \/ Return
  \/ AppendSnippet
  \/ Render

SpecDir == InitDir /\ [][NextDir]_vars

\* ------------------------------------------------------------------------
\* Properties of one comparison
\* ------------------------------------------------------------------------

\* getDiffDetails has just returned the rows (no later step changes them)
Diffed == pc = "left"

\* the rows that carry a line number on the given side (1 left, 2 right)
RowsOf(side) == SelectSeq(diffs, LAMBDA row : IsInt(row[side][1]))

\* the line numbers of one side run 1..len(code), in row order
NumbersInOrder(side, code) ==
  /\ Len(RowsOf(side)) = Len(code)
  /\ \A n \in 1 .. Len(code) : RowsOf(side)[n][side][1] = n

\* a row text without the NUL key ... SOH change markers
RECURSIVE Unmark(_)
Unmark(text) ==
  IF text = <<>> THEN <<>>
  ELSE IF text[1] = NUL THEN Unmark(SubSeq(text, 3, Len(text)))
  ELSE IF text[1] = SOH THEN Unmark(Tail(text))
  ELSE <<text[1]>> \o Unmark(Tail(text))

\* every row text of one side is the tab-expanded original line, exactly
TextsExact(side, code) ==
  \A n \in 1 .. Len(code) : RowsOf(side)[n][side][2] = expand_tabs(code[n])

\* every row text of one side is the tab-expanded original line: exactly in
\* an unchanged row, under the change markers in a changed row, where an
\* empty line is carried as one space
TextsUnderMarkers(side, code) ==
  \A n \in 1 .. Len(code) :
    LET row == RowsOf(side)[n]
        orig == expand_tabs(code[n])
    IN  IF row[3]
        THEN Unmark(row[side][2]) = (IF orig = <<>> THEN <<" ">> ELSE orig)
        ELSE row[side][2] = orig

\* C1 as claimed: on each side the numbered rows carry 1..len in order and
\* the text of each is the original tab-expanded line exactly.
C1_Original ==
  Diffed =>
    /\ NumbersInOrder(1, leftcode) /\ TextsExact(1, leftcode)
    /\ NumbersInOrder(2, rightcode) /\ TextsExact(2, rightcode)

\* C1 as amended: on each side the numbered rows carry 1..len in order, with
\* no gap or repeat; the text of an unchanged row is the original
\* tab-expanded line exactly, and the text of a changed row is that line
\* (one space for an empty line) with difflib's change markers inserted.
C1_RowOrderFidelity ==
  Diffed =>
    /\ NumbersInOrder(1, leftcode) /\ TextsUnderMarkers(1, leftcode)
    /\ NumbersInOrder(2, rightcode) /\ TextsUnderMarkers(2, rightcode)

\* an unchanged row that carries an expanded indented line, followed by a
\* changed row that pairs two lines and carries a change marker
C1_Witness ==
  /\ Diffed
  /\ Len(diffs) = 2
  /\ ~diffs[1][3]
  /\ diffs[1][1][2] = Repeat(TAB, TabSize) \o <<"b">>
  /\ diffs[2][3] /\ IsInt(diffs[2][1][1]) /\ IsInt(diffs[2][2][1])
  /\ NUL \in { diffs[2][2][2][n] : n \in 1 .. Len(diffs[2][2][2]) }

\* the replace blocks of the line-level edit script
ReplaceBlocks ==
  LET ops == get_opcodes(fromlines, tolines, LineJunk)
  IN  { ops[n] : n \in { k \in 1 .. Len(ops) : ops[k][1] = "replace" } }

\* <<left_no, right_no, change>> of the rows that hold a line of the block
BlockRows(op) ==
  LET rows == SelectSeq(diffs, LAMBDA row :
                \/ row[1][1] \in (op[2] + 1) .. op[3]
                \/ row[2][1] \in (op[4] + 1) .. op[5])
  IN  [n \in 1 .. Len(rows) |-> <<rows[n][1][1], rows[n][2][1], rows[n][3]>>]

\* max(m, n) changed rows: left[i] beside right[i] while both last, then the
\* rest of the longer side beside nothing
LeftAligned(op) ==
  LET m == op[3] - op[2]
      n == op[5] - op[4]
  IN  [t \in 1 .. Max(m, n) |->
         <<IF t <= m THEN op[2] + t ELSE EmptyNo,
           IF t <= n THEN op[4] + t ELSE EmptyNo,
           TRUE>>]

\* no before-line of the block is similar to an after-line of it: every
\* pair has a difflib ratio below the cutoff 0.75
Dissimilar(op) ==
  \A i \in (op[2] + 1) .. op[3], j \in (op[4] + 1) .. op[5] :
    RatioLT(ratio(fromlines[i], tolines[j], CharJunk), Cutoff)

\* C2 as claimed: every replace block of m against n lines is rendered as
\* max(m, n) rows, left[i] paired with right[i] as a modification for
\* i < min(m, n) and the excess of the longer side as pure deletions or
\* additions.
C2_Original ==
  Diffed => \A op \in ReplaceBlocks : BlockRows(op) = LeftAligned(op)

\* C2 as amended: the left-aligned excess rule holds for every replace block
\* in which no before-line is similar to an after-line (ratio below 0.75).
C2_LeftAlignedExcess ==
  Diffed => \A op \in ReplaceBlocks :
              Dissimilar(op) => BlockRows(op) = LeftAligned(op)

\* Scenario C: two lines replaced by one that resembles neither:
\* (p, p2, Modified) then (q, Absent, Deleted)
C2_Witness ==
  /\ Diffed
  /\ fromlines = << <<"a">>, <<>> >>
  /\ tolines = << <<"a", "b">> >>
  /\ ReplaceBlocks = { <<"replace", 0, 2, 0, 1>> }
  /\ Dissimilar(<<"replace", 0, 2, 0, 1>>)
  /\ Len(diffs) = 2
  /\ diffs[1][1][1] = 1 /\ diffs[1][2][1] = 1 /\ diffs[1][3]
  /\ diffs[2][1][1] = 2 /\ ~IsInt(diffs[2][2][1]) /\ diffs[2][3]

\* the pane of one side, once formatted (1 left, 2 right)
HasPane(side) == Len(codeContents) >= side

\* C7 as claimed: each pane holds exactly one code line per row, as many as
\* gutter cells, whatever the length of the highlighted buffer.
C7_OneLinePerRow ==
  \A side \in {1, 2} :
    HasPane(side) =>
      /\ Len(codeContents[side].linenos) = Len(diffs)
      /\ Len(codeContents[side].code) = Len(codeContents[side].linenos)

\* the change classes of the stylesheet contract
ChangeClasses ==
  { "lineno_leftchange", "lineno_leftdel", "lineno_leftadd",
    "lineno_rightchange", "lineno_rightdel", "lineno_rightadd",
    "left_diff_change", "left_diff_del", "left_diff_add",
    "right_diff_change", "right_diff_del", "right_diff_add" }

\* the classes a pane carries, gutter and code
ClassesOf(pane) ==
  UNION { { pane.linenos[n].cls[k] : k \in 1 .. Len(pane.linenos[n].cls) } :
          n \in 1 .. Len(pane.linenos) }
    \cup { pane.code[n].cls : n \in 1 .. Len(pane.code) }

\* C9: a file compared with itself gives one row per line, row i pairing
\* line i with line i, unchanged, and no pane carries a change class.
C9_SelfComparison ==
  leftcode = rightcode =>
    /\ Diffed =>
         /\ Len(diffs) = Len(leftcode)
         /\ \A n \in 1 .. Len(diffs) :
              diffs[n][1][1] = n /\ diffs[n][2][1] = n /\ ~diffs[n][3]
    /\ \A side \in {1, 2} :
         HasPane(side) => ClassesOf(codeContents[side]) \cap ChangeClasses = {}

\* a file of two different lines compared with itself, both panes formatted
C9_Witness ==
  /\ pc = "done"
  /\ leftcode = rightcode
  /\ Len(leftcode) = 2
  /\ leftcode[1] # leftcode[2]
  /\ Len(codeContents[2].code) = 2

\* C10: against an empty before file every row is an addition (no left
\* line, right lines 1..n in order) and against an empty after file every
\* row is a deletion; a row without a line number on a side shows a blank
\* gutter cell on that side.
C10_EmptySide ==
  /\ (Diffed /\ leftcode = <<>>) =>
       /\ Len(diffs) = Len(rightcode)
       /\ \A n \in 1 .. Len(diffs) :
            ~IsInt(diffs[n][1][1]) /\ diffs[n][2][1] = n /\ diffs[n][3]
  /\ (Diffed /\ rightcode = <<>>) =>
       /\ Len(diffs) = Len(leftcode)
       /\ \A n \in 1 .. Len(diffs) :
            diffs[n][1][1] = n /\ ~IsInt(diffs[n][2][1]) /\ diffs[n][3]
  /\ \A side \in {1, 2} :
       HasPane(side) =>
         \A n \in 1 .. Len(diffs) :
           ~IsInt(diffs[n][side][1]) => codeContents[side].linenos[n].no = EmptyNo

\* two lines added to an empty file, the left gutter formatted
C10_Witness ==
  /\ pc = "done"
  /\ leftcode = <<>>
  /\ Len(rightcode) = 2
  /\ \A n \in 1 .. 2 :
       codeContents[1].linenos[n] = Cell(<<"lineno_q", "lineno_leftadd">>, EmptyNo)

\* ------------------------------------------------------------------------
\* Properties of the coverage overlay
\* ------------------------------------------------------------------------

\* file2snippet has formatted both panes of the running call
Formatted == pc = "done"

CoverageClasses == {"lineno_coverage_hit", "lineno_coverage_miss"}

HasClass(cell, c) == \E n \in 1 .. Len(cell.cls) : cell.cls[n] = c

\* the gutter cell carries neither coverage class
Unannotated(cell) == \A c \in CoverageClasses : ~HasClass(cell, c)

\* the line, once trimmed, is empty or starts with '#' or '//'
IsBlankOrComment(text) ==
  \/ strip(text) = <<>>
  \/ startswith(strip(text), <<"#">>)
  \/ startswith(strip(text), <<"/", "/">>)

\* the rows of the running call that are changed and have a line on the right
ChangedRightRows == { n \in 1 .. Len(diffs) : diffs[n][3] /\ IsInt(diffs[n][2][1]) }

\* the right gutter cell of row n
RightCell(n) == codeContents[2].linenos[n]

\* C3: with the coverage <<missedLines, allLines>> of the after file loaded,
\* a changed right-side row with line number k that is neither blank/comment
\* nor excluded by the line filter renders lineno_coverage_miss if k is in
\* missedLines, lineno_coverage_hit if k is in allLines but not in
\* missedLines, and neither coverage class if k is not in allLines.
C3_ThreeWayClassification ==
  (Formatted /\ r # NoResult) =>
    \A n \in ChangedRightRows :
      LET k == diffs[n][2][1]
      IN  (~IsBlankOrComment(rightcode[k]) /\ (line_filter = {} \/ k \in line_filter)) =>
            IF k \in r[1]
            THEN HasClass(RightCell(n), "lineno_coverage_miss")
                 /\ ~HasClass(RightCell(n), "lineno_coverage_hit")
            ELSE IF k \in r[2]
            THEN HasClass(RightCell(n), "lineno_coverage_hit")
                 /\ ~HasClass(RightCell(n), "lineno_coverage_miss")
            ELSE Unannotated(RightCell(n))

\* C4: a changed right-side row whose original after-line text, once trimmed,
\* is empty or starts with '#' or '//' carries neither coverage class in the
\* right gutter, whatever the coverage sets hold.
C4_BlankCommentNeverAnnotated ==
  Formatted =>
    \A n \in ChangedRightRows :
      IsBlankOrComment(rightcode[diffs[n][2][1]]) => Unannotated(RightCell(n))

\* C5: whenever file2snippet is called with no coverage report, or with one
\* for which coverage_xml_parse returns nothing, the right pane it produces
\* carries no lineno_coverage_hit and no lineno_coverage_miss class, whatever
\* calls were made earlier in the process.
C5_OverlayOmittedWithoutCoverage ==
  (Formatted /\ r = NoResult) =>
    \A n \in 1 .. Len(diffs) : Unannotated(RightCell(n))

\* C6: a file2snippet call with the arguments of the first call of the
\* process, on unchanged files and reports, returns what the first call
\* returned, whatever calls were made in between.
C6_Determinism ==
  (pc = "file2snippet" /\ first # <<>> /\ call = first[1]) =>
    htmlContents[1] = first[2]

\* the class attributes of a right gutter cell without a coverage class
PlainRightClasses ==
  { <<"lineno_q">>,
    <<"lineno_q", "lineno_rightchange">>,
    <<"lineno_q", "lineno_rightdel">>,
    <<"lineno_q", "lineno_rightadd">> }

\* C11: a right gutter cell carries a coverage class only in a changed row
\* with coverage loaded; every right cell without a coverage class has
\* lineno_q plus at most one of lineno_rightchange / lineno_rightdel /
\* lineno_rightadd as its class attribute, with no other token and no format
\* placeholder left in it; a left gutter cell never carries a coverage class.
C11_RightGutterWellFormed ==
  Formatted =>
    \A n \in 1 .. Len(diffs) :
      /\ Unannotated(codeContents[1].linenos[n])
      /\ IF Unannotated(RightCell(n))
         THEN RightCell(n).cls \in PlainRightClasses
         ELSE diffs[n][3] /\ coverage_line_list # CovNone

\* ------------------------------------------------------------------------
\* Properties of the report cache
\* ------------------------------------------------------------------------

C12_CoverageForwarded ==
  (compare_pc = "snippet" /\ coverage_xml # None) =>
    /\ call.cobertura_xml = coverage_xml
    /\ call.root_dir # coverage_xml

====
